---- MODULE Spec2Model ----
(***************************************************************************)
(* imgcat (src/src/main.rs): the source resolver (Image::try_new,          *)
(* Image::from_stdin), the protocol encoder (print_osc, print_image,       *)
(* print_st) and the driver loop of main, as a state machine.              *)
(*                                                                         *)
(* Text is a sequence of one-character strings; the control characters     *)
(* 0x1b, 0x07 and 0x0a are written "ESC", "BEL" and "LF".  File and        *)
(* network data are sequences of bytes 0..255.  Option<T> is a sequence of *)
(* length 0 (None) or 1 (Some).                                            *)
(***************************************************************************)
EXTENDS Integers, Sequences, FiniteSets, TLC

\* Longest argument list of the bounded runs.
MaxInputs == 2

None == <<>>
Some(x) == <<x>>
IsSome(o) == o # <<>>
Unwrap(o) == o[1]

-----------------------------------------------------------------------------
(* Strings.                                                                *)

StartsWith(s, p) == Len(s) >= Len(p) /\ SubSeq(s, 1, Len(p)) = p

Drop(s, n) == SubSeq(s, n + 1, Len(s))

RECURSIVE TrimStartMatches(_, _)
\* str::trim_start_matches: removes the prefix as often as it repeats.
TrimStartMatches(s, p) ==
    IF p # <<>> /\ StartsWith(s, p) THEN TrimStartMatches(Drop(s, Len(p)), p) ELSE s

RECURSIVE TrimEndMatches(_, _)
\* str::trim_end_matches(char)
TrimEndMatches(s, c) ==
    IF s # <<>> /\ s[Len(s)] = c THEN TrimEndMatches(SubSeq(s, 1, Len(s) - 1), c) ELSE s

\* Position of the last occurrence of character c in s, 0 when there is none.
LastIndexOf(s, c) ==
    IF \E i \in 1..Len(s) : s[i] = c
    THEN CHOOSE i \in 1..Len(s) : s[i] = c /\ \A j \in (i + 1)..Len(s) : s[j] # c
    ELSE 0

\* s.rsplitn(2, c).next(): the piece after the last c, the whole string when
\* c does not occur.  The iterator always yields a first piece, also for "".
RSplitN2First(s, c) == Some(Drop(s, LastIndexOf(s, c)))

AsciiLower == <<"a", "b", "c", "d", "e", "f", "g", "h", "i", "j", "k", "l", "m", "n", "o", "p", "q", "r", "s", "t", "u", "v", "w", "x", "y", "z">>

AsciiUpper == <<"A", "B", "C", "D", "E", "F", "G", "H", "I", "J", "K", "L", "M", "N", "O", "P", "Q", "R", "S", "T", "U", "V", "W", "X", "Y", "Z">>

Digits == <<"0", "1", "2", "3", "4", "5", "6", "7", "8", "9">>

RECURSIVE ToDecimal(_)
\* Display of an unsigned integer ({} of usize).
ToDecimal(n) ==
    IF n < 10 THEN <<Digits[n + 1]>> ELSE ToDecimal(n \div 10) \o <<Digits[(n % 10) + 1]>>

\* ASCII punctuation that occurs in file names, with its code.
Punctuation ==
    <<<<" ", 32>>, <<"%", 37>>, <<"+", 43>>, <<"-", 45>>, <<".", 46>>, <<"/", 47>>,
      <<":", 58>>, <<"=", 61>>, <<"?", 63>>, <<"_", 95>>, <<"~", 126>>>>

\* The ASCII code of a character.
CharCode(c) ==
    IF \E i \in 1..10 : Digits[i] = c THEN 47 + CHOOSE i \in 1..10 : Digits[i] = c
    ELSE IF \E i \in 1..26 : AsciiUpper[i] = c THEN 64 + CHOOSE i \in 1..26 : AsciiUpper[i] = c
    ELSE IF \E i \in 1..26 : AsciiLower[i] = c THEN 96 + CHOOSE i \in 1..26 : AsciiLower[i] = c
    ELSE Punctuation[CHOOSE i \in 1..Len(Punctuation) : Punctuation[i][1] = c][2]

\* The UTF-8 encoding of an ASCII string: one byte per character.
AsBytes(s) == [i \in 1..Len(s) |-> CharCode(s[i])]

-----------------------------------------------------------------------------
(* base64 (BASE64_STANDARD and BASE64_URL_SAFE, both padded).              *)

STANDARD_ALPHABET == <<"A", "B", "C", "D", "E", "F", "G", "H", "I", "J", "K", "L", "M", "N", "O", "P", "Q", "R", "S", "T", "U", "V", "W", "X", "Y", "Z", "a", "b", "c", "d", "e", "f", "g", "h", "i", "j", "k", "l", "m", "n", "o", "p", "q", "r", "s", "t", "u", "v", "w", "x", "y", "z", "0", "1", "2", "3", "4", "5", "6", "7", "8", "9", "+", "/">>

URL_SAFE_ALPHABET == <<"A", "B", "C", "D", "E", "F", "G", "H", "I", "J", "K", "L", "M", "N", "O", "P", "Q", "R", "S", "T", "U", "V", "W", "X", "Y", "Z", "a", "b", "c", "d", "e", "f", "g", "h", "i", "j", "k", "l", "m", "n", "o", "p", "q", "r", "s", "t", "u", "v", "w", "x", "y", "z", "0", "1", "2", "3", "4", "5", "6", "7", "8", "9", "-", "_">>

RECURSIVE Base64Encode(_, _)
Base64Encode(alphabet, bytes) ==
    IF bytes = <<>> THEN <<>>
    ELSE LET n  == Len(bytes)
             b1 == bytes[1]
             b2 == IF n >= 2 THEN bytes[2] ELSE 0
             b3 == IF n >= 3 THEN bytes[3] ELSE 0
             c1 == alphabet[(b1 \div 4) + 1]
             c2 == alphabet[((b1 % 4) * 16 + (b2 \div 16)) + 1]
             c3 == IF n >= 2 THEN alphabet[((b2 % 16) * 4 + (b3 \div 64)) + 1] ELSE "="
             c4 == IF n >= 3 THEN alphabet[(b3 % 64) + 1] ELSE "="
         IN <<c1, c2, c3, c4>> \o Base64Encode(alphabet, Drop(bytes, 3))

-----------------------------------------------------------------------------
(* Url::parse, for the inputs of this model (no userinfo, port, dot        *)
(* segments or characters that are percent-encoded).                       *)

IsAsciiAlpha(c) == \E i \in 1..26 : AsciiLower[i] = c \/ AsciiUpper[i] = c

IsAsciiDigit(c) == \E i \in 1..10 : Digits[i] = c

ToAsciiLowercase(c) ==
    IF \E i \in 1..26 : AsciiUpper[i] = c
    THEN AsciiLower[CHOOSE i \in 1..26 : AsciiUpper[i] = c]
    ELSE c

IsSchemeChar(c) == IsAsciiAlpha(c) \/ IsAsciiDigit(c) \/ c \in {"+", "-", "."}

\* Position of the colon that ends a scheme (a letter, then letters, digits,
\* '+', '-' or '.'), 0 when the string does not begin with a scheme.
SchemeEnd(s) ==
    LET ends == {i \in 2..Len(s) :
                    /\ s[i] = ":"
                    /\ IsAsciiAlpha(s[1])
                    /\ \A j \in 2..(i - 1) : IsSchemeChar(s[j])}
    IN IF ends = {} THEN 0 ELSE CHOOSE i \in ends : TRUE

\* Length of the longest prefix of s made of characters of the set cs.
PrefixIn(s, cs) ==
    IF \E i \in 1..Len(s) : s[i] \notin cs
    THEN (CHOOSE i \in 1..Len(s) : s[i] \notin cs /\ \A j \in 1..(i - 1) : s[j] \in cs) - 1
    ELSE Len(s)

\* Length of the longest prefix of s with no character of the set cs.
PrefixNotIn(s, cs) ==
    IF \E i \in 1..Len(s) : s[i] \in cs
    THEN (CHOOSE i \in 1..Len(s) : s[i] \in cs /\ \A j \in 1..(i - 1) : s[j] \notin cs) - 1
    ELSE Len(s)

\* Schemes whose URLs must have a host ("special" schemes other than file).
HostSchemes == {<<"h", "t", "t", "p">>, <<"h", "t", "t", "p", "s">>, <<"f", "t", "p">>, <<"w", "s">>, <<"w", "s", "s">>}

ParseError == [ok |-> FALSE, scheme |-> <<>>, path |-> <<>>]

\* Url::parse(s): Err for a string with no scheme (a relative URL without a
\* base) and for a host scheme with an empty host; otherwise the lower-cased
\* scheme and the path.
UrlParse(s) ==
    LET e == SchemeEnd(s)
    IN IF e = 0 THEN ParseError
       ELSE LET scheme == [i \in 1..(e - 1) |-> ToAsciiLowercase(s[i])]
                rest   == Drop(s, e)
            IN IF scheme \in HostSchemes
               THEN LET r     == Drop(rest, PrefixIn(rest, {"/", "\\"}))
                        h     == PrefixNotIn(r, {"/", "\\", "?", "#"})
                        after == Drop(r, h)
                        p     == SubSeq(after, 1, PrefixNotIn(after, {"?", "#"}))
                    IN IF h = 0 THEN ParseError
                       ELSE [ok |-> TRUE, scheme |-> scheme,
                             path |-> IF p = <<>> THEN <<"/">> ELSE p]
               ELSE LET r == IF StartsWith(rest, <<"/", "/">>)
                             THEN LET a == Drop(rest, 2)
                                  IN Drop(a, PrefixNotIn(a, {"/", "?", "#"}))
                             ELSE rest
                        p == SubSeq(r, 1, PrefixNotIn(r, {"?", "#"}))
                    IN [ok |-> TRUE, scheme |-> scheme, path |-> p]

-----------------------------------------------------------------------------
(* The protocol encoder.                                                   *)

print_osc(term) ==
    IF IsSome(term)
    THEN IF StartsWith(Unwrap(term), <<"s", "c", "r", "e", "e", "n">>) \/ StartsWith(Unwrap(term), <<"t", "m", "u", "x">>)
         THEN <<"ESC", "P", "t", "m", "u", "x", ";", "ESC", "ESC", "]">>
         ELSE <<"ESC", "]">>
    ELSE <<"ESC", "]">>

\* print_st that knows "screen" only.
print_st_screen_only(term) ==
    IF IsSome(term) /\ StartsWith(Unwrap(term), <<"s", "c", "r", "e", "e", "n">>) THEN <<"BEL", "ESC", "\\">> ELSE <<"BEL">>

print_st(term) ==
    IF IsSome(term)
    THEN IF StartsWith(Unwrap(term), <<"s", "c", "r", "e", "e", "n">>) \/ StartsWith(Unwrap(term), <<"t", "m", "u", "x">>)
         THEN <<"BEL", "ESC", "\\">>
         ELSE <<"BEL">>
    ELSE <<"BEL">>

SizeField(image) == <<"1", "3", "3", "7", ";", "F", "i", "l", "e", "=", "i", "n", "l", "i", "n", "e", "=", "1", ";", "s", "i", "z", "e", "=">> \o ToDecimal(Len(image.data))

NameField(image) ==
    IF IsSome(image.filename)
    THEN <<";", "n", "a", "m", "e", "=">> \o Base64Encode(URL_SAFE_ALPHABET, AsBytes(Unwrap(image.filename)))
    ELSE <<>>

WidthField(a) == IF IsSome(a.width) THEN <<";", "w", "i", "d", "t", "h", "=">> \o Unwrap(a.width) ELSE <<>>

HeightField(a) == IF IsSome(a.height) THEN <<";", "h", "e", "i", "g", "h", "t", "=">> \o Unwrap(a.height) ELSE <<>>

\* The field with the flag ignored.
AspectField_always_one(a) == <<";", "p", "r", "e", "s", "e", "r", "v", "e", "A", "s", "p", "e", "c", "t", "R", "a", "t", "i", "o", "=", "1">>

AspectField(a) ==
    <<";", "p", "r", "e", "s", "e", "r", "v", "e", "A", "s", "p", "e", "c", "t", "R", "a", "t", "i", "o", "=">> \o (IF a.preserve_aspect_ratio THEN <<"1">> ELSE <<"0">>)

TypeField(a) == IF IsSome(a.file_type) THEN <<";", "t", "y", "p", "e", "=">> \o Unwrap(a.file_type) ELSE <<>>

DataField(image) == <<":">> \o Base64Encode(STANDARD_ALPHABET, image.data)

OriginLine(image, a) ==
    IF a.print_path /\ IsSome(image.path) THEN Unwrap(image.path) \o <<"LF">> ELSE <<>>

Fields(image, a) ==
    SizeField(image) \o NameField(image) \o WidthField(a) \o HeightField(a)
        \o AspectField(a) \o TypeField(a) \o DataField(image)

print_image(image, a, term) ==
    print_osc(term) \o Fields(image, a) \o print_st(term) \o <<"LF">> \o OriginLine(image, a)

-----------------------------------------------------------------------------
(* The source resolver.                                                    *)

SUPPORTED_SCHEMES == {<<"h", "t", "t", "p">>, <<"h", "t", "t", "p", "s">>, <<"f", "t", "p">>}

path_separator == "/"

NoImage == [data |-> <<>>, filename |-> None, path |-> None]

Ok(img) == [ok |-> TRUE, image |-> img, context |-> "", name |-> <<>>]

Err(ctx, name) == [ok |-> FALSE, image |-> NoImage, context |-> ctx, name |-> name]

\* try_new without the scheme check: every string that parses is remote.
IsRemote_any_scheme(path) == UrlParse(path).ok

\* The first branch of try_new is taken: the string parses as a URL and its
\* scheme is one of SUPPORTED_SCHEMES.
IsRemote(path) ==
    LET u == UrlParse(path) IN u.ok /\ u.scheme \in SUPPORTED_SCHEMES

RemoteFilename(path) ==
    RSplitN2First(TrimEndMatches(UrlParse(path).path, "/"), "/")

\* What reqwest::blocking::get and Response::bytes can do for one request:
\* get fails only when no response arrives (the status is not inspected);
\* bytes fails when the body cannot be read.
ConnectFailure == [connected |-> FALSE, status |-> 0, body_ok |-> FALSE, body |-> <<>>]

Response(status, body) == [connected |-> TRUE, status |-> status, body_ok |-> TRUE, body |-> body]

BrokenBody == [connected |-> TRUE, status |-> 200, body_ok |-> FALSE, body |-> <<>>]

NetOutcomes ==
    {ConnectFailure, BrokenBody, Response(200, <<255, 216, 255>>), Response(404, <<60, 104>>)}

try_new_remote(path, resp) ==
    IF ~resp.connected THEN Err("failed to connect to", path)
    ELSE IF ~resp.body_ok THEN Err("failed to fetch image data from", path)
    ELSE Ok([data |-> resp.body, filename |-> RemoteFilename(path), path |-> Some(path)])

\* What the file system can hold at one path: nothing, a regular file whose
\* metadata reports its length, a special file whose metadata reports 0,
\* and a file whose read fails.
NoFile == [exists |-> FALSE, readable |-> FALSE, size |-> 0, content |-> <<>>]

RegularFile == [exists |-> TRUE, readable |-> TRUE, size |-> 2, content |-> <<255, 216>>]

SpecialFile == [exists |-> TRUE, readable |-> TRUE, size |-> 0, content |-> <<71, 73>>]

FailingFile == [exists |-> TRUE, readable |-> FALSE, size |-> 2, content |-> <<1, 2>>]

FileStates == {NoFile, RegularFile, SpecialFile, FailingFile}

StrippedPath(path) == TrimStartMatches(path, <<"f", "i", "l", "e", ":", "/", "/">>)

LocalFilename(path) == RSplitN2First(StrippedPath(path), path_separator)

\* The path handed to File::open.
OpenedPath(path) == path

\* The path handed to fs::metadata.
MetadataPath(path) == StrippedPath(path)

\* vec![0; m.len()] with metadata, Vec::new() without.
Buffer(atF) == IF atF.exists THEN [i \in 1..atF.size |-> 0] ELSE <<>>

\* The numbers of bytes one read into a buffer of length cap may return.
ReadCounts(cap, content) ==
    LET m == IF cap < Len(content) THEN cap ELSE Len(content)
    IN IF m = 0 THEN {0} ELSE 1..m

\* The buffer after one File::read that returned n bytes: the length stays.
ReadInto(buffer, content, n) ==
    [i \in 1..Len(buffer) |-> IF i <= n THEN content[i] ELSE buffer[i]]

\* atPath: the file at OpenedPath; atF: the file at MetadataPath; n: the
\* number of bytes the single read returns.
try_new_local(path, atPath, atF, n) ==
    LET f == StrippedPath(path)
    IN IF ~atPath.exists THEN Err("failed to open file", f)
       ELSE IF ~atPath.readable THEN Err("failed to read from file", f)
       ELSE Ok([data |-> ReadInto(Buffer(atF), atPath.content, n),
                filename |-> LocalFilename(path), path |-> Some(path)])

\* What read_to_end on standard input can do: a failure, or all the bytes.
StdinOutcomes ==
    {[ok |-> FALSE, data |-> <<>>], [ok |-> TRUE, data |-> <<>>],
     [ok |-> TRUE, data |-> <<137, 80, 78, 71>>]}

\* from_stdin that names its image.
from_stdin_named(r) ==
    IF ~r.ok THEN Err("failed to read stdin", <<>>)
    ELSE Ok([data |-> r.data, filename |-> Some(<<"s", "t", "d", "i", "n">>), path |-> Some(<<"-">>)])

from_stdin(r) ==
    IF ~r.ok THEN Err("failed to read stdin", <<>>)
    ELSE Ok([data |-> r.data, filename |-> None, path |-> None])

-----------------------------------------------------------------------------
(* The driver: main.                                                       *)

VARIABLES
    args,       \* the parsed command line (Cli)
    term,       \* the TERM environment variable, an Option
    pc,         \* position in main: "start", "stdin", "resolve", "print", "done"
    idx,        \* index of the input being processed (0 for standard input)
    image,      \* the Image between its resolution and its encoding
    stdout,     \* every character written to standard output so far
    exit_code,  \* the process exit status, None while main runs
    calls       \* history: one record per resolution attempted

vars == <<args, term, pc, idx, image, stdout, exit_code, calls>>

\* The arguments and environments of the bounded runs.
LocalPlain == <<"a", ".", "p", "n", "g">>
DrivePath == <<"C", ":", "/", "b">>
FileUrl == <<"f", "i", "l", "e", ":", "/", "/", "/", "d", "/", "x">>
HttpUrl == <<"h", "t", "t", "p", ":", "/", "/", "h", "/", "a", "/", "p", ".", "j", "p", "g">>
HttpsBare == <<"h", "t", "t", "p", "s", ":", "/", "/", "h">>
FtpUpper == <<"F", "T", "P", ":", "/", "/", "h", "/", "b", "/">>
EmptyHost == <<"h", "t", "t", "p", ":", "/", "/">>
WsUrl == <<"w", "s", ":", "/", "/", "h", "/", "a">>
NoColon == <<"h", "t", "t", "p", "/", "x">>

DriverInputs == {LocalPlain, FileUrl, HttpUrl, HttpsBare}

AllInputs ==
    {LocalPlain, DrivePath, FileUrl, HttpUrl, HttpsBare, FtpUpper, EmptyHost, WsUrl, NoColon}

InputLists(S, n) == UNION {[1..k -> S] : k \in 0..n}

\* -s, --stretch: ArgAction::SetFalse with default true.
SetFalse(given) == ~given

\* One parsed command line without its inputs; stretch records whether -s
\* was given.
Options(file_type, width, height, stretch, print_path) ==
    [file_type |-> file_type, width |-> width, height |-> height, stretch |-> stretch,
     preserve_aspect_ratio |-> SetFalse(stretch), print_path |-> print_path]

DriverOptions ==
    {Options(None, None, None, FALSE, FALSE),
     Options(Some(<<".", "c">>), Some(<<"5", "0", "%">>), Some(<<"a", "u", "t", "o">>), TRUE, TRUE)}

AllOptions ==
    {Options(t, w, h, s, pp) :
        t \in {None, Some(<<".", "c">>)}, w \in {None, Some(<<"5", "0", "%">>)},
        h \in {None, Some(<<"a", "u", "t", "o">>)}, s \in BOOLEAN, pp \in BOOLEAN}

DriverTerms == {None, Some(<<"t", "m", "u", "x">>)}

AllTerms == {None, Some(<<"x", "t", "e", "r", "m">>), Some(<<"s", "c", "r", "e", "e", "n", ".", "x", "t", "e", "r", "m">>), Some(<<"t", "m", "u", "x">>)}

InitWith(inputs, maxLen, options, terms) ==
    /\ \E o \in options, l \in InputLists(inputs, maxLen) :
          args = [file_type |-> o.file_type, width |-> o.width, height |-> o.height,
                  stretch |-> o.stretch,
                  preserve_aspect_ratio |-> o.preserve_aspect_ratio,
                  print_path |-> o.print_path, inputs |-> l]
    /\ term \in terms
    /\ pc = "start"
    /\ idx = 0
    /\ image = NoImage
    /\ stdout = <<>>
    /\ exit_code = None
    /\ calls = <<>>

\* Argument lists up to MaxInputs long.
Init == InitWith(DriverInputs, MaxInputs, DriverOptions, DriverTerms)

\* At most one argument, every combination of options and TERM.
InitEnc == InitWith(AllInputs, 1, AllOptions, AllTerms)

\* println!("got {} input images", ...) at the head of main.
Banner(n) == <<"g", "o", "t", " ">> \o ToDecimal(n) \o <<" ", "i", "n", "p", "u", "t", " ", "i", "m", "a", "g", "e", "s">> \o <<"LF">>

\* main that skips a failed input and goes on.
MainAfterErr_skip(i, n) ==
    IF i < n THEN [pc |-> "resolve", idx |-> i + 1, exit_code |-> None]
    ELSE [pc |-> "done", idx |-> i, exit_code |-> Some(1)]

\* main returns the error of a failed resolution (the ? operators).
MainAfterErr(i, n) == [pc |-> "done", idx |-> i, exit_code |-> Some(1)]

\* After print_image: the next input, or Ok(()) after the last.
MainAfterPrint(i, n) ==
    IF i < n THEN [pc |-> "resolve", idx |-> i + 1, exit_code |-> None]
    ELSE [pc |-> "done", idx |-> i, exit_code |-> Some(0)]

Call(input, kind, r, net, atPath, atF, fetched, opened) ==
    [input |-> input, kind |-> kind, ok |-> r.ok, context |-> r.context, name |-> r.name,
     image |-> r.image, net |-> net, atPath |-> atPath, atF |-> atF,
     fetched |-> fetched, opened |-> opened, from |-> 0, to |-> 0]

\* A resolution returned r: main goes on to print_image or returns.
Resolved(r, call) ==
    /\ calls' = Append(calls, call)
    /\ image' = r.image
    /\ IF r.ok
       THEN /\ pc' = "print"
            /\ UNCHANGED <<idx, exit_code>>
       ELSE LET nx == MainAfterErr(idx, Len(args.inputs))
            IN /\ pc' = nx.pc
               /\ idx' = nx.idx
               /\ exit_code' = nx.exit_code
    /\ UNCHANGED <<args, term, stdout>>

Start ==
    /\ pc = "start"
    /\ stdout' = stdout \o Banner(Len(args.inputs))
    /\ IF args.inputs = <<>>
       THEN pc' = "stdin" /\ idx' = 0
       ELSE pc' = "resolve" /\ idx' = 1
    /\ UNCHANGED <<args, term, image, exit_code, calls>>

FromStdin ==
    /\ pc = "stdin"
    /\ \E s \in StdinOutcomes :
          LET r == from_stdin(s)
          IN Resolved(r, Call(None, "stdin", r, ConnectFailure, NoFile, NoFile, {}, {}))

TryNewRemote ==
    /\ pc = "resolve"
    /\ idx <= Len(args.inputs)
    /\ IsRemote(args.inputs[idx])
    /\ \E resp \in NetOutcomes :
          LET path == args.inputs[idx]
              r    == try_new_remote(path, resp)
          IN Resolved(r, Call(Some(path), "remote", r, resp, NoFile, NoFile, {path}, {}))

TryNewLocal ==
    /\ pc = "resolve"
    /\ idx <= Len(args.inputs)
    /\ ~IsRemote(args.inputs[idx])
    /\ \E atPath \in FileStates, atF \in FileStates :
          LET path == args.inputs[idx] IN
          /\ OpenedPath(path) = MetadataPath(path) => atF = atPath
          /\ \E n \in ReadCounts(Len(Buffer(atF)), atPath.content) :
                LET r == try_new_local(path, atPath, atF, n)
                IN Resolved(r, Call(Some(path), "local", r, ConnectFailure, atPath, atF,
                                    {}, {OpenedPath(path)}))

PrintImage ==
    /\ pc = "print"
    /\ LET out == print_image(image, args, term)
           nx  == MainAfterPrint(idx, Len(args.inputs))
       IN /\ stdout' = stdout \o out
          /\ calls' = [calls EXCEPT ![Len(calls)].from = Len(stdout) + 1,
                                    ![Len(calls)].to = Len(stdout) + Len(out)]
          /\ pc' = nx.pc
          /\ idx' = nx.idx
          /\ exit_code' = nx.exit_code
    /\ image' = NoImage
    /\ UNCHANGED <<args, term>>

Next == Start \/ FromStdin \/ TryNewRemote \/ TryNewLocal \/ PrintImage

Spec == Init /\ [][Next]_vars

SpecEnc == InitEnc /\ [][Next]_vars

-----------------------------------------------------------------------------
(* The claims.                                                             *)

EndsWith(s, p) == Len(s) >= Len(p) /\ SubSeq(s, Len(s) - Len(p) + 1, Len(s)) = p

\* First position >= from at which sub occurs in s, 0 when there is none.
IndexFrom(s, sub, from) ==
    LET hits == {i \in from..(Len(s) - Len(sub) + 1) : SubSeq(s, i, i + Len(sub) - 1) = sub}
    IN IF hits = {} THEN 0 ELSE CHOOSE i \in hits : \A j \in hits : i <= j

IndexOf(s, sub) == IndexFrom(s, sub, 1)

Contains(s, sub) == IndexOf(s, sub) # 0

\* Number of positions at which sub occurs in s.
Occurrences(s, sub) ==
    Cardinality({i \in 1..(Len(s) - Len(sub) + 1) : SubSeq(s, i, i + Len(sub) - 1) = sub})

\* print_image has run for the call.
Encoded(c) == c.from > 0

\* What print_image wrote for the call.
Segment(c) == SubSeq(stdout, c.from, c.to)

\* The escape sequence of the call: its output up to the first line end.
SequenceLine(c) == LET s == Segment(c) IN SubSeq(s, 1, IndexOf(s, <<"LF">>) - 1)

\* What follows the first line end in the output of the call.
AfterSequence(c) == LET s == Segment(c) IN Drop(s, IndexOf(s, <<"LF">>))

CallSet == {calls[i] : i \in 1..Len(calls)}

TermIsMultiplexer ==
    /\ term # None
    /\ \/ StartsWith(term[1], <<"s", "c", "r", "e", "e", "n">>)
       \/ StartsWith(term[1], <<"t", "m", "u", "x">>)

RECURSIVE SumLengths(_)
SumLengths(cs) ==
    IF cs = <<>> THEN 0
    ELSE (IF Encoded(Head(cs)) THEN Head(cs).to - Head(cs).from + 1 ELSE 0) + SumLengths(Tail(cs))

\* C1: standard output holds only the escape sequences of the encoded
\* inputs (each with its optional origin line): it is empty or begins with
\* ESC, and its length is the sum of the lengths of what print_image wrote.
C1_StdoutOnlySequences ==
    /\ stdout # <<>> => stdout[1] = "ESC"
    /\ Len(stdout) = SumLengths(calls)

\* C2: a remote input whose fetch ends in a transport failure or in a
\* non-success response fails with an error naming the URL and is never
\* encoded.
C2_NonSuccessFails ==
    \A c \in CallSet :
        (c.kind = "remote" /\ (~c.net.connected \/ ~c.net.body_ok \/ c.net.status \notin 200..299))
            => /\ ~c.ok
               /\ c.name = c.input[1]
               /\ ~Encoded(c)

\* C3: a local input that opens and resolves has as data exactly the full
\* contents of the opened file.
C3_FullContents ==
    \A c \in CallSet :
        (c.kind = "local" /\ c.ok) => c.image.data = c.atPath.content

\* C4: an input is fetched and never opened when it parses as a URL with
\* scheme http, https or ftp, and is opened and never fetched in every other
\* case, C:/b included, whatever the network and the file system answer.
C4_ClassificationExclusive ==
    \A c \in CallSet :
        c.kind # "stdin" =>
            LET s == c.input[1]
                u == UrlParse(s)
            IN /\ IF u.ok /\ u.scheme \in {<<"h", "t", "t", "p">>, <<"h", "t", "t", "p", "s">>, <<"f", "t", "p">>}
                  THEN c.kind = "remote" /\ c.fetched = {s} /\ c.opened = {}
                  ELSE c.kind = "local" /\ c.fetched = {} /\ c.opened # {}
               /\ s \in {DrivePath, LocalPlain, FileUrl, EmptyHost, WsUrl, NoColon}
                     => c.kind = "local"
               /\ s \in {HttpUrl, HttpsBare, FtpUpper} => c.kind = "remote"

C4_Witness ==
    \E c \in CallSet : c.input = Some(DrivePath) /\ c.kind = "local" /\ c.ok /\ Encoded(c)

\* C5: every escape sequence opens with ESC P tmux ; ESC ESC ] and closes
\* with BEL ESC \ when TERM starts with screen or tmux, and opens with ESC ]
\* and closes with BEL alone otherwise.
C5_FramingAgrees ==
    \A c \in CallSet :
        Encoded(c) =>
            LET line == SequenceLine(c)
            IN IF TermIsMultiplexer
               THEN /\ StartsWith(line, <<"ESC", "P", "t", "m", "u", "x", ";", "ESC", "ESC", "]", "1", "3", "3", "7", ";">>)
                    /\ EndsWith(line, <<"BEL", "ESC", "\\">>)
                    /\ Occurrences(line, <<"BEL">>) = 1
               ELSE /\ StartsWith(line, <<"ESC", "]", "1", "3", "3", "7", ";">>)
                    /\ EndsWith(line, <<"BEL">>)
                    /\ Occurrences(line, <<"ESC">>) = 1
                    /\ Occurrences(line, <<"BEL">>) = 1

C5_Witness ==
    /\ term = Some(<<"t", "m", "u", "x">>)
    /\ \E c \in CallSet : Encoded(c)

\* C6: the calls are the inputs in argument order; a failed resolution is
\* the last call, is not encoded, ends the process with a non-zero status
\* and leaves the sequences of the earlier inputs written in full; exit
\* status zero means every input was resolved and encoded exactly once.
C6_FirstFailureStops ==
    /\ \A i \in 1..Len(calls) :
          /\ args.inputs # <<>> => i <= Len(args.inputs) /\ calls[i].input = Some(args.inputs[i])
          /\ args.inputs = <<>> => i = 1 /\ calls[i].kind = "stdin"
          /\ ~calls[i].ok =>
                /\ i = Len(calls)
                /\ ~Encoded(calls[i])
                /\ pc = "done"
                /\ exit_code # None /\ exit_code # Some(0)
          /\ i < Len(calls) =>
                /\ calls[i].ok /\ Encoded(calls[i])
                /\ calls[i].to <= Len(stdout)
                /\ EndsWith(SequenceLine(calls[i]), <<"BEL">>)
                      \/ EndsWith(SequenceLine(calls[i]), <<"BEL", "ESC", "\\">>)
          /\ i > 1 /\ Encoded(calls[i]) => calls[i].from = calls[i - 1].to + 1
    /\ Occurrences(stdout, <<"1", "3", "3", "7", ";", "F", "i", "l", "e", "=", "i", "n", "l", "i", "n", "e", "=", "1", ";">>)
          = Cardinality({i \in 1..Len(calls) : Encoded(calls[i])})
    /\ pc = "done" =>
          /\ exit_code \in {Some(0), Some(1)}
          /\ exit_code = Some(0) <=>
                /\ \A i \in 1..Len(calls) : calls[i].ok /\ Encoded(calls[i])
                /\ Len(calls) = (IF args.inputs = <<>> THEN 1 ELSE Len(args.inputs))
    /\ pc # "done" => exit_code = None

C6_Witness ==
    /\ pc = "done"
    /\ Len(args.inputs) = 2
    /\ Len(calls) = 2
    /\ Encoded(calls[1])
    /\ ~calls[2].ok
    /\ exit_code = Some(1)

\* C7: with no positional input the image comes from standard input, has
\* no filename and no origin, and its output has no ;name= field and no
\* origin line, with --print-path too.
C7_StdinAnonymous ==
    /\ args.inputs = <<>> => \A c \in CallSet : c.kind = "stdin"
    /\ \A c \in CallSet :
          (c.kind = "stdin" /\ c.ok) =>
              /\ c.image.filename = None
              /\ c.image.path = None
              /\ Encoded(c) =>
                    /\ ~Contains(Segment(c), <<";", "n", "a", "m", "e", "=">>)
                    /\ AfterSequence(c) = <<>>
                    /\ Occurrences(Segment(c), <<"LF">>) = 1

C7_Witness ==
    /\ args.print_path
    /\ \E c \in CallSet : c.kind = "stdin" /\ Encoded(c) /\ c.image.data # <<>>

\* C8: every escape sequence has ;preserveAspectRatio= exactly once, after
\* the name, width and height fields and before the type field, with value 0
\* exactly when the stretch flag was given and 1 otherwise.
C8_AspectRatioField ==
    \A c \in CallSet :
        Encoded(c) =>
            LET line == SequenceLine(c)
                key  == <<";", "p", "r", "e", "s", "e", "r", "v", "e", "A", "s", "p", "e", "c", "t", "R", "a", "t", "i", "o", "=">>
                k    == IndexOf(line, key)
            IN /\ Occurrences(line, key) = 1
               /\ line[k + Len(key)] = (IF args.stretch THEN "0" ELSE "1")
               /\ line[k + Len(key) + 1] \in {";", ":"}
               /\ \A f \in {<<";", "n", "a", "m", "e", "=">>, <<";", "w", "i", "d", "t", "h", "=">>, <<";", "h", "e", "i", "g", "h", "t", "=">>, <<";", "s", "i", "z", "e", "=">>} :
                     Contains(line, f) => IndexOf(line, f) < k
               /\ Contains(line, <<";", "t", "y", "p", "e", "=">>) => IndexOf(line, <<";", "t", "y", "p", "e", "=">>) > k
               /\ IsSome(c.image.filename) <=> Contains(line, <<";", "n", "a", "m", "e", "=">>)
               /\ IF IsSome(args.width)
                  THEN Contains(line, <<";", "w", "i", "d", "t", "h", "=">> \o args.width[1] \o <<";">>)
                  ELSE ~Contains(line, <<";", "w", "i", "d", "t", "h", "=">>)
               /\ IF IsSome(args.height)
                  THEN Contains(line, <<";", "h", "e", "i", "g", "h", "t", "=">> \o args.height[1] \o <<";">>)
                  ELSE ~Contains(line, <<";", "h", "e", "i", "g", "h", "t", "=">>)
               /\ IF IsSome(args.file_type)
                  THEN Contains(line, <<";", "t", "y", "p", "e", "=">> \o args.file_type[1] \o <<":">>)
                  ELSE ~Contains(line, <<";", "t", "y", "p", "e", "=">>)

C8_Witness ==
    /\ args.stretch
    /\ IsSome(args.width) /\ IsSome(args.height) /\ IsSome(args.file_type)
    /\ \E c \in CallSet : Encoded(c) /\ IsSome(c.image.filename)

\* C9: a local input that begins with file:// is opened at the stripped
\* path, so that file:///d/x opens /d/x and yields its contents.
C9_OpensStrippedPath ==
    \A c \in CallSet :
        (c.kind = "local" /\ StartsWith(c.input[1], <<"f", "i", "l", "e", ":", "/", "/">>)) =>
            /\ c.opened = {TrimStartMatches(c.input[1], <<"f", "i", "l", "e", ":", "/", "/">>)}
            /\ c.input[1] = FileUrl => c.opened = {<<"/", "d", "/", "x">>}

\* C10: the filename of a remote image is the last segment of the URL path
\* with trailing separators stripped; with nothing left there is no filename
\* and no ;name= field.
C10_RemoteFilename ==
    \A c \in CallSet :
        (c.kind = "remote" /\ c.ok) =>
            LET p == TrimEndMatches(UrlParse(c.input[1]).path, "/")
            IN IF p = <<>>
               THEN /\ c.image.filename = None
                    /\ Encoded(c) => ~Contains(SequenceLine(c), <<";", "n", "a", "m", "e", "=">>)
               ELSE c.image.filename = Some(Drop(p, LastIndexOf(p, "/")))

====
